---- MODULE Spec2Model ----
(***************************************************************************)
(* A model of the Serialport session handle of webview-src/index.ts.       *)
(*                                                                         *)
(* The session is a JavaScript object used from one event loop.  An async  *)
(* method runs without interruption until it awaits a promise that is      *)
(* settled by the host: an `invoke` round trip on the Command Channel or   *)
(* the registration `appWindow.listen` on the Event Feed.  Each such       *)
(* settlement arrives in an event-loop task of its own, and the awaits of  *)
(* the session's own already-computed promises (await this.cancelListen(), *)
(* await this.close(), await this.open()) are continued in the microtask   *)
(* drain of that same task.  So one action of the model is the code from   *)
(* one host suspension point to the next, and calls overlap exactly at     *)
(* those points.  Every host answer is either an acknowledgement or a      *)
(* failure, chosen nondeterministically.                                   *)
(*                                                                         *)
(* One await of an own promise is reached in the caller's task and not in  *)
(* the task of a host answer: `await this.cancelListen()` at the start of  *)
(* listen().  It suspends listen() until the caller's synchronous code has *)
(* run, so calls made in the same task run before listen() reads the path  *)
(* and registers.  No host answer and no event falls into that gap.        *)
(***************************************************************************)
EXTENDS Integers, Sequences, FiniteSets, TLC

\* Bounds of the model.
MaxTasks == 2
MaxCalls == 3

\* Program constants (constructor defaults).
DefaultTimeout == 200
DefaultSize == 1024

\* The inputs.  An optional argument is the empty set (not supplied) or a
\* singleton; "" is the empty path and 0 the unset baud rate.
Paths == {"", "A", "B"}
Devices == {"A", "B"}
InitOptions == {<<"A", 9600>>, <<"", 0>>}     \* constructor: path, baudRate
PathArgs == {"", "B"}                          \* setPath(value)
BaudArgs == {0, 19200}                         \* setBaudRate(value)
ChangeArgs == {<<{"B"}, {}>>, <<{}, {19200}>>, <<{"B"}, {19200}>>,
               <<{""}, {0}>>, <<{""}, {19200}>>}   \* change({path?, baudRate?})
ReadOpts == {<<{}, {}>>, <<{0}, {7}>>, <<{7}, {0}>>}  \* read({timeout?, size?})
The(S) == CHOOSE x \in S : TRUE

VARIABLES
    isOpen,     \* this.isOpen
    path,       \* this.options.path
    baudRate,   \* this.options.baudRate
    unListen,   \* this.unListen: 0 is undefined, else the registration it cancels
    feed,       \* Event Feed: the registrations that are active
    devOpen,    \* Command Channel: paths with an acknowledged open and no
                \* acknowledged close, force_close or close_all since
    running,    \* the calls in progress, one record each
    done,       \* the record of the call the latest step finished, if any
    calls,      \* number of calls started so far
    lastRecv,   \* the callbacks the latest event was handed to, if an event
                \* was delivered since the last step of a call
    lastThrew,  \* those of them whose handler failed on that event
    pre         \* the session and the two hosts as they were when the latest
                \* call started

vars == <<isOpen, path, baudRate, unListen, feed, devOpen, running, done, calls,
         lastRecv, lastThrew, pre>>
session == <<isOpen, path, baudRate, unListen>>

\* One entry of a call's trace: a command issued, an answer received, or a
\* local effect.
Ev(k, c, p, a, b) == [k |-> k, c |-> c, p |-> p, a |-> a, b |-> b]

Snapshot == [isOpen |-> isOpen, path |-> path, baudRate |-> baudRate,
             unListen |-> unListen, feed |-> feed, devOpen |-> devOpen]

IdleTask == [op |-> "none", id |-> 0, pc |-> "idle", p |-> {}, b |-> {},
             ro |-> <<{}, {}>>, isOpened |-> FALSE, cpath |-> "", res |-> "none", trace |-> <<>>]

\* The record of a call that starts now.
NewTask(op, p, b) == [IdleTask EXCEPT !.op = op, !.id = calls + 1, !.pc = "run",
                                      !.p = p, !.b = b]

\* At most MaxTasks calls are in progress at a time, MaxCalls in a run.
Free == Cardinality(running) < MaxTasks /\ calls < MaxCalls
Quiet == running = {}
\* No listen() is suspended at `await this.cancelListen()`: the task in which
\* it was called has ended.
NoGap == \A r \in running : r.pc # "listen_gap"

\* The call with record old (none for a call that starts) goes on as rec.
Put(old, rec) ==
    /\ lastRecv' = {}
    /\ lastThrew' = {}
    /\ running' = (running \ old) \cup (IF rec.pc = "done" THEN {} ELSE {rec})
    /\ done' = IF rec.pc = "done" THEN rec ELSE IdleTask
Finish(rec, r) == [rec EXCEPT !.pc = "done", !.res = r]
Log(rec, e) == [rec EXCEPT !.trace = Append(@, e)]

Init ==
    /\ isOpen = FALSE
    /\ \E o \in InitOptions : path = o[1] /\ baudRate = o[2]
    /\ unListen = 0
    /\ feed = {}
    /\ devOpen = {}
    /\ running = {}
    /\ done = IdleTask
    /\ calls = 0
    /\ lastRecv = {}
    /\ lastThrew = {}
    /\ pre = Snapshot

(***************************************************************************)
(* Pieces of the methods, as operators.                                    *)
(***************************************************************************)

\* Mutant: open() forgets the baud rate validation.
OpenInvalidPathOnly(p, b) == p = ""

\* open(): the two local validations.
OpenInvalid(p, b) == p = "" \/ b = 0

\* Mutant: open() also returns early while another open() awaits its answer.
OpenSkipsWhenBusy(io) == io \/ \E r \in running : r.pc = "open_wait"

\* open(): `if (this.isOpen) return;`
OpenSkips(io) == io

\* Mutant: close() without its early return.
CloseNeverSkips == FALSE

\* close(): `if (!this.isOpen) return;`
CloseSkips == ~isOpen

\* Mutant: write() without its guard.
WriteNeverRejects == FALSE

\* write(): `if (!this.isOpen) return Promise.reject(...)`
WriteRejects == ~isOpen

\* writeBinary(): `if (!this.isOpen) return Promise.reject(...)`
WriteBinaryRejects == ~isOpen

\* Mutant: the reconfiguration calls write the fields without closing first.
WasOpenedNever == FALSE

\* change()/setBaudRate()/setPath(): `if (this.isOpen) { isOpened = true; ...`
WasOpened == isOpen

\* Mutant: the reconfiguration calls never reopen.
NeverReopens(rec) == FALSE

\* change()/setBaudRate()/setPath(): `if (isOpened) await this.open()`
Reopens(rec) == rec.isOpened

\* change(): `if (options.path) this.options.path = options.path`
ChangePath(po, cur) == IF po # {} /\ The(po) # "" THEN The(po) ELSE cur

\* change(): `if (options.baudRate) this.options.baudRate = options.baudRate`
ChangeBaud(bo, cur) == IF bo # {} /\ The(bo) # 0 THEN The(bo) ELSE cur

\* The field values a reconfiguration call writes.
NewPath(rec) ==
    CASE rec.op = "setPath" -> The(rec.p)
      [] rec.op = "change" -> ChangePath(rec.p, path)
      [] OTHER -> path

\* Mutant: setBaudRate() and change() leave the baud rate as it is.
NewBaudKept(rec) == baudRate

NewBaud(rec) ==
    CASE rec.op = "setBaudRate" -> The(rec.b)
      [] rec.op = "change" -> ChangeBaud(rec.b, baudRate)
      [] OTHER -> baudRate

\* listen(): the feed channel, 'plugin-serialport-read-' + this.options.path
ReadEvent(p) == <<"plugin-serialport-read-", p>>

\* read(): `options?.timeout || this.options.timeout`, `options?.size || this.size`
EffTimeout(to) == IF to # {} /\ The(to) # 0 THEN The(to) ELSE DefaultTimeout
EffSize(sz) == IF sz # {} /\ The(sz) # 0 THEN The(sz) ELSE DefaultSize

\* cancelListen(): calling this.unListen() either returns, or throws before
\* or after the host has dropped the registration.  With no unListen set the
\* body does nothing.
UnlistenOutcomes == IF unListen = 0 THEN {"ok"} ELSE {"ok", "throw", "throw_after"}
Threw(o) == o # "ok"
\* Mutant: cancelListen() clears the field without calling this.unListen().
FeedAfterCancelForgets(o) == feed

FeedAfterCancel(o) ==
    IF o = "throw" THEN feed ELSE {r \in feed : r.id # unListen}
FieldAfterCancel(o) == IF o = "ok" THEN 0 ELSE unListen

\* Mutant: the failure of a command is swallowed and the call resolves.
RejectionSwallowed(rec, c) ==
    Finish(Log(rec, Ev("nack", c, rec.cpath, 0, 0)), "ok")

\* `catch (error) { return Promise.reject(error) }`: the command c the call
\* rec waited for failed, and the call is rejected with that failure.
Rejected(rec, c) ==
    Finish(Log(rec, Ev("nack", c, rec.cpath, 0, 0)), "Remote")

\* Mutant: open() sets isOpen whatever the answer to the open command.
IsOpenAfterOpenAlways(ok) == TRUE

\* open(): `this.isOpen = true` follows the awaited open command, and is
\* skipped when that rejects.
IsOpenAfterOpen(ok) == IF ok THEN TRUE ELSE isOpen

\* Mutant: read() guarded like write().
ReadRejectsWhenClosed == ~isOpen

\* read(): there is no isOpen guard before the read command.
ReadRejects == FALSE

\* The registrations an event on the channel of path p is handed to.
Receivers(p) == {x.id : x \in {y \in feed : y.chan = ReadEvent(p)}}

\* Mutant: a handler that fails is unsubscribed.
FeedAfterDeliveryDropsThrower(threw) == {x \in feed : x.id \notin threw}

\* listen(), the handler: `try { ... fn(...) } catch (error) {
\* console.error(error) }`.  The registrations after an event was handled,
\* threw being the handlers that failed on it.
FeedAfterDelivery(threw) == feed

\* open(), from its first line to the await of the open command, run with
\* the session fields io, pth, bd.
OpenStep(rec, io, pth, bd) ==
    IF OpenInvalid(pth, bd) THEN Finish(rec, "Validation")
    ELSE IF OpenSkips(io) THEN Finish(rec, "ok")
    ELSE [Log(rec, Ev("cmd", "open", pth, bd, 0))
            EXCEPT !.pc = "open_wait", !.cpath = pth]

\* cancelRead(), up to the await of the cancel_read command.
IssueCancelRead(rec) ==
    [Log(rec, Ev("cmd", "cancel_read", path, 0, 0))
       EXCEPT !.pc = "cancel_read_wait", !.cpath = path]

\* Mutant: close() does not await cancelRead() and issues the close command
\* at once.
StartCloseNoAwait(rec) ==
    [Log(Log(rec, Ev("cmd", "cancel_read", path, 0, 0)),
         Ev("cmd", "close", path, 0, 0))
       EXCEPT !.pc = "close_wait", !.cpath = path]

\* close() on an open session, up to `await this.cancelRead()`.
StartClose(rec) == IssueCancelRead(rec)

\* close(), from the answer to cancel_read to the await of the close command.
IssueClose(rec) ==
    [Log(Log(rec, Ev("ack", "cancel_read", rec.cpath, 0, 0)),
         Ev("cmd", "close", path, 0, 0))
       EXCEPT !.pc = "close_wait", !.cpath = path]

\* close(), after the close command was acknowledged and cancelListen()
\* returned: the entries of the trace up to `this.isOpen = false`.
Closed(rec) ==
    Log(Log(Log(rec, Ev("ack", "close", rec.cpath, 0, 0)),
            Ev("local", "cancelListen", "", 0, 0)),
        Ev("local", "isOpen", "", 0, 0))

\* Mutant: the reopen is started before the fields are written.
AfterMutateReopensFirst(rec, io, pth, bd) ==
    IF rec.isOpened THEN OpenStep(rec, io, path, baudRate)
    ELSE Finish(Log(rec, Ev("local", "mutate", pth, bd, 0)), "ok")

\* The rest of change()/setBaudRate()/setPath() after the fields were
\* written as pth, bd, with this.isOpen being io.
AfterMutate(rec, io, pth, bd) ==
    LET r == Log(rec, Ev("local", "mutate", pth, bd, 0))
    IN  IF Reopens(rec) THEN OpenStep(r, io, pth, bd) ELSE Finish(r, "ok")

(***************************************************************************)
(* The calls.  A Call action is the method from its first line to its      *)
(* first host suspension point (or to its end).                            *)
(***************************************************************************)

Started(rec) ==
    /\ pre' = Snapshot
    /\ Put({}, rec)
    /\ calls' = calls + 1

CallOpen ==
    /\ Free
    /\ Started(OpenStep(NewTask("open", {}, {}), isOpen, path, baudRate))
    /\ UNCHANGED <<session, feed, devOpen>>

OpenAck(r) ==
    /\ r.pc = "open_wait"
    /\ \E ok \in BOOLEAN :
         IF ok
         THEN /\ isOpen' = IsOpenAfterOpen(TRUE)
              /\ devOpen' = devOpen \cup {r.cpath}
              /\ Put({r},
                   Finish(Log(Log(r, Ev("ack", "open", r.cpath, 0, 0)),
                              Ev("local", "isOpen", "", 0, 0)), "ok"))
         ELSE /\ isOpen' = IsOpenAfterOpen(FALSE)
              /\ Put({r}, Rejected(r, "open"))
              /\ UNCHANGED devOpen
    /\ UNCHANGED <<path, baudRate, unListen, feed, calls, pre>>

CallClose ==
    /\ Free
    /\ LET rec == NewTask("close", {}, {})
       IN  Started(IF CloseSkips THEN Finish(rec, "ok") ELSE StartClose(rec))
    /\ UNCHANGED <<session, feed, devOpen>>

CallCancelRead ==
    /\ Free
    /\ Started(IssueCancelRead(NewTask("cancelRead", {}, {})))
    /\ UNCHANGED <<session, feed, devOpen>>

\* The answer to cancel_read: the end of cancelRead(), and inside close()
\* the step on to the close command.
CancelReadAck(r) ==
    /\ r.pc = "cancel_read_wait"
    /\ \E ok \in BOOLEAN :
         Put({r},
            IF ~ok THEN Rejected(r, "cancel_read")
            ELSE IF r.op = "cancelRead"
                 THEN Finish(Log(r, Ev("ack", "cancel_read", r.cpath, 0, 0)), "ok")
                 ELSE IssueClose(r))
    /\ UNCHANGED <<session, feed, devOpen, calls, pre>>

\* The answer to the close command: cancelListen(), this.isOpen = false, and
\* in a reconfiguration call the field writes and the reopen.
CloseAck(r) ==
    /\ r.pc = "close_wait"
    /\ \E ok \in BOOLEAN, o \in UnlistenOutcomes :
         IF ~ok
         THEN /\ o = "ok"
              /\ Put({r}, Rejected(r, "close"))
              /\ UNCHANGED <<session, feed, devOpen>>
         ELSE /\ devOpen' = devOpen \ {r.cpath}
              /\ feed' = FeedAfterCancel(o)
              /\ unListen' = FieldAfterCancel(o)
              /\ IF Threw(o)
                 THEN /\ Put({r},
                           Finish(Log(Log(r, Ev("ack", "close", r.cpath, 0, 0)),
                                      Ev("throw", "cancelListen", "", 0, 0)),
                                  "CancelListen"))
                      /\ UNCHANGED <<isOpen, path, baudRate>>
                 ELSE /\ isOpen' = FALSE
                      /\ IF r.op = "close"
                         THEN /\ Put({r}, Finish(Closed(r), "ok"))
                              /\ UNCHANGED <<path, baudRate>>
                         ELSE /\ path' = NewPath(r)
                              /\ baudRate' = NewBaud(r)
                              /\ Put({r},
                                   AfterMutate(Closed(r), FALSE, NewPath(r), NewBaud(r)))
    /\ UNCHANGED <<calls, pre>>

\* change(), setBaudRate() and setPath(): one action, op says which.
Reconfigure(op, p, b) ==
    /\ Free
    /\ LET rec == NewTask(op, p, b)
       IN  IF WasOpened
           THEN /\ Started(StartClose([rec EXCEPT !.isOpened = TRUE]))
                /\ UNCHANGED <<path, baudRate>>
           ELSE /\ path' = NewPath(rec)
                /\ baudRate' = NewBaud(rec)
                /\ Started(AfterMutate(rec, isOpen, NewPath(rec), NewBaud(rec)))
    /\ UNCHANGED <<isOpen, unListen, feed, devOpen>>

CallChange ==
    \E a \in ChangeArgs : Reconfigure("change", a[1], a[2])

CallSetBaudRate ==
    \E v \in BaudArgs : Reconfigure("setBaudRate", {}, {v})

CallSetPath ==
    \E v \in PathArgs : Reconfigure("setPath", {v}, {})

CallCancelListen ==
    /\ Free
    /\ \E o \in UnlistenOutcomes :
         /\ feed' = FeedAfterCancel(o)
         /\ unListen' = FieldAfterCancel(o)
         /\ Started(Finish(NewTask("cancelListen", {}, {}),
                              IF Threw(o) THEN "CancelListen" ELSE "ok"))
    /\ UNCHANGED <<isOpen, path, baudRate, devOpen>>

CallListen ==
    /\ Free
    /\ \E o \in UnlistenOutcomes :
         /\ feed' = FeedAfterCancel(o)
         /\ unListen' = FieldAfterCancel(o)
         /\ LET rec == NewTask("listen", {}, {})
            IN  Started([rec EXCEPT !.pc = "listen_gap",
                                    !.res = IF Threw(o) THEN "Listen" ELSE "none"])
    /\ UNCHANGED <<isOpen, path, baudRate, devOpen>>

\* listen() resumes after `await this.cancelListen()`, in the task in which
\* it was called.  When cancelListen() was rejected (res is "Listen" since
\* the call), the catch rejects the call now; else listen() derives the
\* channel from the path as it is now and asks the Event Feed for the
\* registration.
ListenIssue(r) ==
    /\ r.pc = "listen_gap"
    /\ IF r.res = "Listen"
       THEN /\ running' = running \ {r}
            /\ done' = Finish(r, "Listen")
       ELSE /\ running' = (running \ {r}) \cup
                            {[Log(r, Ev("cmd", "listen", path, 0, 0))
                                EXCEPT !.pc = "listen_wait", !.cpath = path]}
            /\ UNCHANGED done
    /\ UNCHANGED <<session, feed, devOpen, calls, lastRecv, lastThrew, pre>>

\* The Event Feed registers the handler of a listen() in progress: from now
\* on events reach it, and the answer with its canceller is on its way.
ListenRegistered(r) ==
    /\ r.pc = "listen_wait"
    /\ feed' = feed \cup {[id |-> r.id, chan |-> ReadEvent(r.cpath)]}
    /\ Put({r}, [r EXCEPT !.pc = "listen_registered"])
    /\ UNCHANGED <<session, devOpen, calls, pre>>

\* appWindow.listen settles: the canceller of the registration is stored in
\* this.unListen, or the registration failed and nothing was registered.
ListenAck(r) ==
    /\ \/ /\ r.pc = "listen_registered"
          /\ unListen' = r.id
          /\ Put({r}, Finish(Log(r, Ev("ack", "listen", r.cpath, 0, 0)), "ok"))
       \/ /\ r.pc = "listen_wait"
          /\ Put({r}, Finish(Log(r, Ev("nack", "listen", r.cpath, 0, 0)), "Listen"))
          /\ UNCHANGED unListen
    /\ UNCHANGED <<isOpen, path, baudRate, feed, devOpen, calls, pre>>

CallRead ==
    /\ Free
    /\ \E o \in ReadOpts :
         LET rec == [NewTask("read", {}, {}) EXCEPT !.ro = o]
         IN  Started(IF ReadRejects THEN Finish(rec, "NotOpen")
                        ELSE [Log(rec, Ev("cmd", "read", path,
                                          EffTimeout(o[1]), EffSize(o[2])))
                                EXCEPT !.pc = "invoke_wait", !.cpath = path])
    /\ UNCHANGED <<session, feed, devOpen>>

CallWrite ==
    /\ Free
    /\ LET rec == NewTask("write", {}, {})
       IN  Started(IF WriteRejects THEN Finish(rec, "NotOpen")
                      ELSE [Log(rec, Ev("cmd", "write", path, 0, 0))
                              EXCEPT !.pc = "invoke_wait", !.cpath = path])
    /\ UNCHANGED <<session, feed, devOpen>>

CallWriteBinary ==
    /\ Free
    /\ \E isBytes \in BOOLEAN :
         LET rec == NewTask("writeBinary", {}, {})
         IN  Started(IF WriteBinaryRejects THEN Finish(rec, "NotOpen")
                        ELSE IF isBytes
                             THEN [Log(rec, Ev("cmd", "write_binary", path, 0, 0))
                                     EXCEPT !.pc = "invoke_wait", !.cpath = path]
                             ELSE Finish(rec, "Type"))
    /\ UNCHANGED <<session, feed, devOpen>>

\* The answer to read, write or write_binary: passed to the caller.
InvokeAck(r) ==
    /\ r.pc = "invoke_wait"
    /\ \E ok \in BOOLEAN :
         Put({r},
            IF ok THEN Finish(Log(r, Ev("ack", r.trace[1].c, r.cpath, 0, 0)), "ok")
            ELSE Rejected(r, r.trace[1].c))
    /\ UNCHANGED <<session, feed, devOpen, calls, pre>>

\* The static forceClose(path) and closeAll().
CallForceClose ==
    /\ Free
    /\ \E p \in Devices :
         Started([Log(NewTask("forceClose", {p}, {}),
                         Ev("cmd", "force_close", p, 0, 0))
                       EXCEPT !.pc = "release_wait", !.cpath = p])
    /\ UNCHANGED <<session, feed, devOpen>>

CallCloseAll ==
    /\ Free
    /\ Started([Log(NewTask("closeAll", {}, {}),
                       Ev("cmd", "close_all", "", 0, 0))
                     EXCEPT !.pc = "release_wait"])
    /\ UNCHANGED <<session, feed, devOpen>>

ReleaseAck(r) ==
    /\ r.pc = "release_wait"
    /\ \E ok \in BOOLEAN :
         IF ok
         THEN /\ devOpen' = IF r.op = "closeAll" THEN {}
                            ELSE devOpen \ {r.cpath}
              /\ Put({r},
                   Finish(Log(r, Ev("ack", r.trace[1].c, r.cpath, 0, 0)), "ok"))
         ELSE /\ Put({r}, Rejected(r, r.trace[1].c))
              /\ UNCHANGED devOpen
    /\ UNCHANGED <<session, feed, calls, pre>>

\* The Event Feed delivers one event on the channel of path p: every active
\* registration on that channel has its handler run, and each handler either
\* completes or fails (decoding, or in the caller's callback).
Deliver ==
    /\ NoGap
    /\ \E p \in Paths :
         \E threw \in SUBSET Receivers(p) :
             /\ lastRecv' = Receivers(p)
             /\ lastThrew' = threw
             /\ <<lastRecv', lastThrew'>> # <<lastRecv, lastThrew>>
             /\ feed' = FeedAfterDelivery(threw)
    /\ UNCHANGED <<session, devOpen, running, done, calls, pre>>

\* The host answers a call in progress, in a task of its own.
OpenAnswered == NoGap /\ \E r \in running : OpenAck(r)
CancelReadAnswered == NoGap /\ \E r \in running : CancelReadAck(r)
CloseAnswered == NoGap /\ \E r \in running : CloseAck(r)
ListenAnswered == NoGap /\ \E r \in running : ListenAck(r)
ListenResumed == \E r \in running : ListenIssue(r)
ListenReachedFeed == NoGap /\ \E r \in running : ListenRegistered(r)
InvokeAnswered == NoGap /\ \E r \in running : InvokeAck(r)
ReleaseAnswered == NoGap /\ \E r \in running : ReleaseAck(r)

\* Calls may overlap at their suspension points.
Next ==
    \/ CallOpen \/ CallClose \/ CallCancelRead \/ CallCancelListen
    \/ CallListen \/ CallChange \/ CallSetBaudRate \/ CallSetPath
    \/ CallRead \/ CallWrite \/ CallWriteBinary
    \/ CallForceClose \/ CallCloseAll
    \/ OpenAnswered \/ CancelReadAnswered \/ CloseAnswered \/ ListenAnswered
    \/ InvokeAnswered \/ ReleaseAnswered
    \/ ListenResumed \/ ListenReachedFeed
    \/ Deliver

Spec == Init /\ [][Next]_vars

\* Every call is started only when no other call is in progress.
SeqNext ==
    \/ Quiet /\ CallOpen
    \/ Quiet /\ CallClose
    \/ Quiet /\ CallCancelRead
    \/ Quiet /\ CallCancelListen
    \/ Quiet /\ CallListen
    \/ Quiet /\ CallChange
    \/ Quiet /\ CallSetBaudRate
    \/ Quiet /\ CallSetPath
    \/ Quiet /\ CallRead
    \/ Quiet /\ CallWrite
    \/ Quiet /\ CallWriteBinary
    \/ Quiet /\ CallForceClose
    \/ Quiet /\ CallCloseAll
    \/ OpenAnswered \/ CancelReadAnswered \/ CloseAnswered \/ ListenAnswered
    \/ InvokeAnswered \/ ReleaseAnswered
    \/ ListenResumed \/ ListenReachedFeed
    \/ Deliver

SeqSpec == Init /\ [][SeqNext]_vars

(***************************************************************************)
(* The claims.                                                             *)
(***************************************************************************)

\* The calls in progress and the call that has just finished.
Records == running \cup {done}
\* The call that started last: pre is the session as it was at its start.
Latest(r) == r.id = calls /\ r.op # "none"
\* The call was turned away in its first step: it is finished with result
\* res, it issued nothing, and the session is as it was.
TurnedAway(r, res) ==
    /\ r = done
    /\ r.res = res
    /\ r.trace = <<>>
    /\ Snapshot = pre

\* C1: write(text) and writeBinary(bytes) on a session with isOpen false are
\* rejected with the not-open error, issue no command and leave the session
\* as it was; so a write or write_binary command is only issued with isOpen
\* true.
C1_WriteNeedsOpen ==
    \A r \in Records :
        (Latest(r) /\ r.op \in {"write", "writeBinary"} /\ ~pre.isOpen)
            => TurnedAway(r, "NotOpen")

C1_Witness ==
    /\ Latest(done) /\ done.op = "write" /\ ~pre.isOpen
    /\ done.res = "NotOpen"

\* C2: open() with an empty path or an unset (zero) baud rate is rejected
\* with the validation error, issues no command and leaves isOpen and every
\* other field of the session as it was.
C2_OpenValidates ==
    \A r \in Records :
        (Latest(r) /\ r.op = "open" /\ (pre.path = "" \/ pre.baudRate = 0))
            => TurnedAway(r, "Validation")

C2_Witness ==
    /\ Latest(done) /\ done.op = "open"
    /\ pre.path # "" /\ pre.baudRate = 0
    /\ done.res = "Validation"

\* C3: close() on a session with isOpen false is a no-op: it issues no
\* command, changes no field of the session (a subscription held stays
\* held) and resolves.
C3_CloseClosedNoOp ==
    \A r \in Records :
        (Latest(r) /\ r.op = "close" /\ ~pre.isOpen) => TurnedAway(r, "ok")

C3_Witness ==
    /\ Latest(done) /\ done.op = "close" /\ ~pre.isOpen
    /\ pre.unListen # 0
    /\ done.res = "ok"

\* The kinds of the entries of a trace, in order.
Steps(tr) == [i \in 1..Len(tr) |-> <<tr[i].k, tr[i].c>>]
CloseOrder == << <<"cmd", "cancel_read">>, <<"ack", "cancel_read">>,
                 <<"cmd", "close">>, <<"ack", "close">>,
                 <<"local", "cancelListen">>, <<"local", "isOpen">> >>

\* C4: a close() on an open session whose remote calls all succeed issues
\* cancel_read and has it acknowledged, then issues close and has it
\* acknowledged, then releases the subscription, and only then sets isOpen
\* to false: while it waits for either answer the session is still open and
\* the subscription is still held, and the close command is not issued
\* while cancel_read is unanswered.
C4_CloseOrder ==
    \A r \in Records :
        r.op = "close" =>
            /\ r.pc = "cancel_read_wait" =>
                 /\ Steps(r.trace) = SubSeq(CloseOrder, 1, 1)
                 /\ Snapshot = pre
            /\ r.pc = "close_wait" =>
                 /\ Steps(r.trace) = SubSeq(CloseOrder, 1, 3)
                 /\ Snapshot = pre
            /\ (r.pc = "done" /\ r.res = "ok" /\ pre.isOpen) =>
                 /\ Steps(r.trace) = CloseOrder
                 /\ ~isOpen /\ unListen = 0 /\ feed = {}

C4_Witness ==
    /\ done.op = "close" /\ done.res = "ok"
    /\ pre.isOpen /\ pre.unListen # 0
    /\ Steps(done.trace) = CloseOrder

ReconfOps == {"change", "setBaudRate", "setPath"}
Failed(tr) == \E i \in 1..Len(tr) : tr[i].k \in {"nack", "throw"}
Issued(tr, c) == \E i \in 1..Len(tr) : tr[i].k = "cmd" /\ tr[i].c = c
NoCommand(tr) == \A i \in 1..Len(tr) : tr[i].k # "cmd"
\* The values the caller passed are the session's values.
InEffect(r) ==
    /\ r.p # {} => path = The(r.p)
    /\ r.b # {} => baudRate = The(r.b)
\* The caller passed a non-empty path and a non-zero baud rate (or none).
NonEmptyArgs(r) == "" \notin r.p /\ 0 \notin r.b
\* What C5 says of a finished reconfiguration call.
StatePreserved(r) ==
    IF pre.isOpen
    THEN /\ r.res = "ok" /\ isOpen /\ InEffect(r)
         /\ \E i \in 1..Len(r.trace) :
              r.trace[i] = Ev("cmd", "open", path, baudRate, 0)
    ELSE /\ r.res = "ok" /\ ~isOpen /\ InEffect(r)
         /\ NoCommand(r.trace)

\* C5 as stated: a reconfiguration call in which nothing the hosts are asked
\* fails leaves an open session open with the new values, the open command
\* issued with them, and a closed session closed with the new values and no
\* command issued.
C5_AsStated ==
    (done.op \in ReconfOps /\ ~Failed(done.trace)) => StatePreserved(done)

\* C5 amended: the same, for calls that pass a non-empty path and a non-zero
\* baud rate.
C5_StatePreserved ==
    (done.op \in ReconfOps /\ ~Failed(done.trace) /\ NonEmptyArgs(done))
        => StatePreserved(done)

C5_Witness ==
    /\ done.op = "change" /\ done.p = {"B"} /\ done.b = {19200}
    /\ pre.isOpen /\ pre.path = "A" /\ pre.baudRate = 9600
    /\ isOpen /\ path = "B" /\ baudRate = 19200

\* The internal close of a reconfiguration call succeeded and its reopen
\* failed, locally (validation) or remotely.
ReopenFailed(r) ==
    /\ r.op \in ReconfOps /\ r.pc = "done" /\ pre.isOpen
    /\ \E i \in 1..Len(r.trace) : r.trace[i].k = "local" /\ r.trace[i].c = "isOpen"
    /\ \/ ~Issued(r.trace, "open")
       \/ r.trace[Len(r.trace)] = Ev("nack", "open", r.cpath, 0, 0)
\* The call is rejected with the failure of the reopen.
ReopenFailureSurfaced(r) ==
    r.res = IF Issued(r.trace, "open") THEN "Remote" ELSE "Validation"

\* C6 as stated: when the internal close succeeds and the reopen fails, the
\* call is rejected with that failure and the session ends closed with the
\* values the caller passed.
C6_AsStated ==
    ReopenFailed(done) =>
        /\ ReopenFailureSurfaced(done)
        /\ ~isOpen
        /\ InEffect(done)

\* C6 amended: the same, except that change() ignores an empty path and a
\* zero baud rate: those fields keep their previous values.
C6_ReopenFailure ==
    ReopenFailed(done) =>
        /\ ReopenFailureSurfaced(done)
        /\ ~isOpen
        /\ IF done.op = "change"
           THEN /\ path = (IF done.p \in {{}, {""}} THEN pre.path ELSE The(done.p))
                /\ baudRate = (IF done.b \in {{}, {0}} THEN pre.baudRate ELSE The(done.b))
           ELSE InEffect(done) /\ (done.p = {} => path = pre.path)
                               /\ (done.b = {} => baudRate = pre.baudRate)

C6_Witness ==
    /\ ReopenFailed(done) /\ done.op = "setBaudRate" /\ done.b = {19200}
    /\ done.res = "Remote" /\ ~isOpen /\ baudRate = 19200

\* C7: when a listen() has succeeded and a second listen() that does not
\* overlap it succeeds, the first registration is cancelled before the second
\* exists, the second is the only one active, and an event delivered after
\* it reaches the second callback alone.
C7_Resubscribe ==
    \A r \in Records :
        (r.op = "listen" /\ pre.unListen # 0) =>
            /\ (r.pc \in {"listen_gap", "listen_wait"} /\ r.res = "none")
                 => feed = {}
            /\ (r.pc = "done" /\ r.res = "ok") =>
                 /\ feed = {[id |-> r.id, chan |-> ReadEvent(r.cpath)]}
                 /\ unListen = r.id
                 /\ lastRecv \subseteq {r.id}

C7_Witness ==
    /\ done.op = "listen" /\ done.res = "ok"
    /\ pre.unListen # 0 /\ pre.feed # {}
    /\ lastRecv = {done.id}

\* C8: in every reachable state, whatever calls overlap, at most one
\* registration made by the session is active, and once the listen() that
\* made it has resolved it is the one held in this.unListen.
C8_AtMostOneSubscription ==
    /\ Cardinality(feed) <= 1
    /\ \A x \in feed : (\A r \in running : r.id # x.id) => x.id = unListen

\* C9: in every reachable state, isOpen implies that an open of the current
\* path was acknowledged and no close of that device was acknowledged since.
C9_OpenMeansDeviceOpen == isOpen => path \in devOpen

\* C10: a close() of an open session that fails at cancel_read, at the close
\* command or at the release of the subscription is rejected and leaves
\* isOpen true, the subscription field as it was, and the device open if it
\* was open.
C10_FailedCloseChangesNothing ==
    (done.op = "close" /\ pre.isOpen /\ done.res # "ok") =>
        /\ Failed(done.trace)
        /\ isOpen
        /\ unListen = pre.unListen
        /\ pre.path \in pre.devOpen => path \in devOpen

\* The last entry of a trace is the entry e.
EndsWith(tr, e) == Len(tr) > 0 /\ tr[Len(tr)] = e
\* This step is the one in which the call r gets the failure of command c.
GetsFailure(r, c) ==
    /\ r \in running /\ r.pc = c \o "_wait"
    /\ done'.id = r.id
    /\ EndsWith(done'.trace, Ev("nack", c, r.cpath, 0, 0))

\* C11: when open() has issued the open command and the command fails, the
\* call is rejected with that failure and the step does not change isOpen;
\* and the only steps in which isOpen turns true are those in which an open
\* command is acknowledged to the call that issued it.
C11_OpenFailureLeavesClosed ==
    [][ /\ \A r \in running :
             GetsFailure(r, "open") => (done'.res = "Remote" /\ isOpen' = isOpen)
        /\ (isOpen' /\ ~isOpen) =>
             \E r \in running :
                 /\ r.pc = "open_wait"
                 /\ done' = Finish(Log(Log(r, Ev("ack", "open", r.cpath, 0, 0)),
                                       Ev("local", "isOpen", "", 0, 0)), "ok")
      ]_vars

C11_Witness ==
    /\ done.op = "open" /\ done.res = "Remote"
    /\ EndsWith(done.trace, Ev("nack", "open", path, 0, 0))
    /\ ~pre.isOpen /\ ~isOpen

\* C12: whatever calls overlap, a step that changes path or baudRate ends
\* with isOpen false: the fields are written either by a call that found the
\* session closed, or directly after `this.isOpen = false` of the call's own
\* close(), and nothing in the rest of that step sets isOpen.
C12_MutableOnlyWhileClosed ==
    [][ (path' # path \/ baudRate' # baudRate) => ~isOpen' ]_vars

C12_Witness ==
    \E r \in running :
        /\ r.op = "setPath" /\ r.isOpened /\ r.pc = "open_wait"
        /\ EndsWith(r.trace, Ev("cmd", "open", "B", baudRate, 0))
        /\ pre.isOpen /\ pre.path = "A" /\ path = "B" /\ ~isOpen

\* The steps of a reconfiguration call on an open session up to its reopen.
ReconfOrder == CloseOrder \o << <<"local", "mutate">>, <<"cmd", "open">> >>
\* The internal close of the call failed.
CloseStepFailed(tr) ==
    \E i \in 1..Len(tr) :
        /\ tr[i].k \in {"nack", "throw"}
        /\ tr[i].c \in {"cancel_read", "close", "cancelListen"}

\* C13: in a reconfiguration call that found the session open, whatever
\* other calls overlap it, an open command is issued only as the eighth step,
\* after cancel_read was issued and acknowledged, close was issued and
\* acknowledged, the subscription was released, isOpen was set to false and
\* the fields were written, and it carries the values written; if the close
\* step failed, no open command is issued.
C13_ReopenAfterClose ==
    \A r \in Records :
        (r.op \in ReconfOps /\ r.isOpened) =>
            /\ \A i \in 1..Len(r.trace) :
                 (r.trace[i].k = "cmd" /\ r.trace[i].c = "open") =>
                     /\ i = Len(ReconfOrder)
                     /\ Steps(SubSeq(r.trace, 1, i)) = ReconfOrder
                     /\ r.trace[i].p = r.trace[i - 1].p
                     /\ r.trace[i].a = r.trace[i - 1].a
            /\ CloseStepFailed(r.trace) => ~Issued(r.trace, "open")

C13_Witness ==
    \E r \in running :
        /\ r.op = "change" /\ r.isOpened /\ r.pc = "open_wait"
        /\ Steps(r.trace) = ReconfOrder
        /\ r.trace[Len(r.trace)] = Ev("cmd", "open", "B", 19200, 0)

\* C14: in the state in which a close() of an open session has just resolved
\* successfully, whatever calls overlapped it, this.unListen is undefined and
\* no registration made by the session is active.
C14_NoSubscriptionAfterClose ==
    (done.op = "close" /\ done.res = "ok" /\ Steps(done.trace) = CloseOrder)
        => (unListen = 0 /\ feed = {})

\* C15 as stated: a read() on a session with isOpen false is rejected
\* locally and issues no command.
C15_AsStated ==
    \A r \in Records :
        (Latest(r) /\ r.op = "read" /\ ~pre.isOpen) => TurnedAway(r, "NotOpen")

\* C15 amended: read() is not gated by isOpen: with isOpen false as with
\* isOpen true it issues the read command for the current path, and it
\* resolves or is rejected as the command is answered.
C15_ReadNotGated ==
    \A r \in Records :
        (Latest(r) /\ r.op = "read") =>
            /\ Len(r.trace) >= 1
            /\ r.trace[1].k = "cmd" /\ r.trace[1].c = "read"
            /\ r.trace[1].p = pre.path
            /\ r.pc = "done" =>
                 \/ r.res = "ok" /\ EndsWith(r.trace, Ev("ack", "read", pre.path, 0, 0))
                 \/ r.res = "Remote"
                      /\ EndsWith(r.trace, Ev("nack", "read", pre.path, 0, 0))

C15_Witness ==
    /\ Latest(done) /\ done.op = "read" /\ ~pre.isOpen /\ ~isOpen
    /\ Issued(done.trace, "read")
    /\ done.res = "Remote"

\* C16: the read command of read(opts) carries the current path, the
\* timeout the caller passed (0 included) or else the session's timeout, and
\* the size the caller passed (0 included) or else the session's size.
C16_ReadParameters ==
    \A r \in Records :
        (Latest(r) /\ r.op = "read" /\ r.trace # <<>>) =>
            r.trace[1] =
                Ev("cmd", "read", pre.path,
                   IF r.ro[1] = {} THEN DefaultTimeout ELSE The(r.ro[1]),
                   IF r.ro[2] = {} THEN DefaultSize ELSE The(r.ro[2]))

\* C17: the guard of open() is isOpen alone: an open() that starts with
\* isOpen false and a valid path and baud rate issues the open command,
\* also while another open() is waiting for the answer to its own; so two
\* open commands can be outstanding at once.
C17_OpenGuardIsOpenOnly ==
    \A r \in Records :
        (Latest(r) /\ r.op = "open" /\ ~pre.isOpen
                   /\ pre.path # "" /\ pre.baudRate # 0)
            => /\ Len(r.trace) >= 1
               /\ r.trace[1] = Ev("cmd", "open", pre.path, pre.baudRate, 0)

\* Two open() calls wait for their answers at once, and nothing else was
\* called.
C17_Witness ==
    /\ calls = 2 /\ ~isOpen /\ devOpen = {}
    /\ \E r1, r2 \in running :
         /\ r1.id = 1 /\ r2.id = 2
         /\ r1.op = "open" /\ r2.op = "open"
         /\ r1.pc = "open_wait" /\ r2.pc = "open_wait"
         /\ r1.trace = <<Ev("cmd", "open", path, baudRate, 0)>>
         /\ r2.trace = r1.trace

\* C18: a step in which the handler of a delivered event fails changes
\* neither isOpen nor this.unListen nor the registrations, touches no call
\* in progress or finished (the listen() that registered the handler is not
\* rejected), and leaves every channel with the receivers it had, so that
\* the next event reaches the same callback.
C18_HandlerFailureIsolated ==
    [][ lastThrew' # {} =>
            /\ isOpen' = isOpen /\ unListen' = unListen /\ feed' = feed
            /\ running' = running /\ done' = done
            /\ \A p \in Paths : Receivers(p)' = Receivers(p)
      ]_vars

C18_Witness ==
    /\ done.op = "listen" /\ done.res = "ok"
    /\ unListen = done.id
    /\ lastRecv = {unListen} /\ lastThrew = {unListen}
    /\ feed = {[id |-> unListen, chan |-> ReadEvent(path)]}

\* C19: without overlapping calls, the registration held in this.unListen is
\* on the channel of the current path.
C19_SubscriptionFollowsPath ==
    \A x \in feed : x.id = unListen => x.chan = ReadEvent(path)

\* The internal close of the call failed at cancel_read or at the close
\* command.
InternalCloseFailed(r) ==
    /\ r.op \in ReconfOps /\ pre.isOpen
    /\ \/ EndsWith(r.trace, Ev("nack", "cancel_read", pre.path, 0, 0))
       \/ EndsWith(r.trace, Ev("nack", "close", pre.path, 0, 0))

\* C20: a setPath(), setBaudRate() or change() on an open session, not
\* overlapped by another call, whose cancel_read or close command fails is
\* rejected with that failure, leaves path and baudRate as they were and
\* isOpen true, and issues no open command.
C20_FailedCloseKeepsConfiguration ==
    InternalCloseFailed(done) =>
        /\ done.res = "Remote"
        /\ path = pre.path /\ baudRate = pre.baudRate
        /\ isOpen
        /\ ~Issued(done.trace, "open")

C20_Witness ==
    /\ InternalCloseFailed(done)
    /\ done.op = "setPath" /\ done.p = {"B"}
    /\ EndsWith(done.trace, Ev("nack", "close", "A", 0, 0))
    /\ path = "A" /\ isOpen
====
